---------------------------- MODULE Spec2Model ----------------------------
(***************************************************************************)
(* State-machine model of the SensorTag acquisition scripts.               *)
(*                                                                         *)
(*   src/services/sensor.py  one-shot script: read_all (bounded retry) ->  *)
(*                           _read_once -> MQTT publish of the batch       *)
(*   src/test.py             endless loop: read_all_sensors -> publish ->  *)
(*                           sleep(MEASUREMENT_INTERVAL)                   *)
(*                                                                         *)
(* Conventions                                                             *)
(*   - A measured value is an integer number of hundredths (round(x, 2)).  *)
(*   - A raw characteristic value is a sequence of bytes (0..255).         *)
(*   - Every call on the BLE / MQTT boundary either returns or raises;     *)
(*     the outcome is chosen nondeterministically.                        *)
(*   - log is the sequence of boundary events of the current acquisition   *)
(*     cycle; a timestamp is the number of events logged before now_iso(). *)
(***************************************************************************)
EXTENDS Integers, Sequences, FiniteSets, TLC

VARIABLES
    mac,      \* the address the script was started with, one character per element
    prog,     \* which script runs: "sensor" (services/sensor.py) or "test" (test.py)
    pc,       \* position of the (single) thread of control
    raw,      \* the device: data characteristic -> bytes it returns when read
    attempt,  \* read_all's loop variable (sensor.py:26)
    idx,      \* position in the read sequence (block of _read_once / registry index)
    buf,      \* bytes returned by the last characteristic read
    rows,     \* the local list `rows` of _read_once / read_all_sensors
    df,       \* the batch returned to the caller (`df`)
    pub,      \* index of the next record of df to publish
    exc,      \* exception in flight / that ended the process ("none" if none)
    conns,    \* number of btle.Peripheral connections opened and not disconnected
    mqtt,     \* state of the MQTT client: "new", "connected", "disconnected"
    ts,       \* the local `ts` (last value of now_iso())
    log       \* boundary events of the current cycle, in order

vars == <<mac, prog, pc, raw, attempt, idx, buf, rows, df, pub, exc, conns, mqtt, ts, log>>

-----------------------------------------------------------------------------
(* Bounds of the model: how far the length of a raw buffer may fall short  *)
(* of, or exceed, the length the decoder expects.                          *)
MaxShort == 1
MaxExtra == 1

(* sensor.py:9 *)
RETRY_ON_DISCONNECT == 1

-----------------------------------------------------------------------------
(* Exception classes *)
Disconnect == "BTLEDisconnectError"
BleOther   == "BTLEException"
Cancel     == "KeyboardInterrupt"

BleOutcomes == {"ok", Disconnect, BleOther}

Ev(e, s) == [ev |-> e, s |-> s]

-----------------------------------------------------------------------------
(* The device *)
Chars == {"HUM", "BAR", "LUX", "BAT"}

(* A well-formed value of each data characteristic. *)
Nominal(c) ==
    CASE c = "HUM" -> <<0, 99, 0, 48>>
      [] c = "BAR" -> <<1, 2, 3, 160, 134, 1>>
      [] c = "LUX" -> <<16, 100>>
      [] c = "BAT" -> <<87>>

(* s cut or padded (with 0xFF bytes) to n bytes *)
Resize(s, n) == [i \in 1..n |-> IF i <= Len(s) THEN s[i] ELSE 255]

RawChoices(c) ==
    { Resize(Nominal(c), n) :
        n \in { k \in (Len(Nominal(c)) - MaxShort)..(Len(Nominal(c)) + MaxExtra) : k >= 0 } }

-----------------------------------------------------------------------------
(* Codec: struct.unpack and the arithmetic of the decoders *)

(* round(n / d, 0) as Python rounds a float that holds n / d exactly:      *)
(* to nearest, ties to even.  d > 0.                                       *)
RoundHalfEven(n, d) ==
    LET q == n \div d
        r == n % d
    IN  IF 2 * r < d THEN q
        ELSE IF 2 * r > d THEN q + 1
        ELSE IF q % 2 = 0 THEN q ELSE q + 1

Val(vs)  == [err |-> "none", vals |-> vs]
Fail(e)  == [err |-> e, vals |-> <<>>]

(* struct.unpack("<HH", raw): exactly 4 bytes, else struct.error *)
UnpackLE_HH(b) ==
    IF Len(b) # 4 THEN Fail("struct.error")
    ELSE Val(<<b[1] + 256 * b[2], b[3] + 256 * b[4]>>)

(* struct.unpack(">H", raw): exactly 2 bytes, else struct.error *)
UnpackBE_H(b) ==
    IF Len(b) # 2 THEN Fail("struct.error")
    ELSE Val(<<256 * b[1] + b[2]>>)

(* Mutant: the temperature scaled over a span of 175 degrees *)
TempC_span175(t_raw) == RoundHalfEven(17500 * t_raw - 4000 * 65536, 65536)

(* round((t_raw / 65536.0) * 165.0 - 40.0, 2), in hundredths *)
TempC(t_raw) == RoundHalfEven(16500 * t_raw - 4000 * 65536, 65536)

(* Mutant: the humidity decoded without masking the two status bits *)
RelHum_unmasked(rh_raw) == RoundHalfEven(10000 * rh_raw, 65536)

(* round(((rh_raw & ~0x0003) / 65536.0) * 100.0, 2), in hundredths *)
RelHum(rh_raw) == RoundHalfEven(10000 * (rh_raw - (rh_raw % 4)), 65536)

(* Mutant: the exponent taken from three bits instead of four *)
Lux_exp3bits(raw_lux) ==
    LET exp  == (raw_lux \div 4096) % 8
        mant == raw_lux % 4096
    IN  mant * (2 ^ exp)

(* round(mant * (0.01 * 2 ** exp), 2), in hundredths *)
Lux(raw_lux) ==
    LET exp  == (raw_lux \div 4096) % 16
        mant == raw_lux % 4096
    IN  mant * (2 ^ exp)

(* round(p_raw / 100.0, 2), in hundredths *)
Press(p_raw) == p_raw

-----------------------------------------------------------------------------
(* Identity metadata *)
(* DEFAULT_MAC = "98:07:2D:27:F1:86" *)
DEFAULT_MAC ==
    <<"9", "8", ":", "0", "7", ":", "2", "D", ":", "2", "7", ":", "F", "1", ":", "8", "6">>

(* the addresses sensor.py may be started with: none given (DEFAULT_MAC)   *)
(* or sys.argv[1]                                                          *)
MacChoices ==
    { DEFAULT_MAC,
      <<"A", "A", ":", "B", "B", ":", "C", "C", ":", "D", "D", ":", "E", "E", ":", "F", "F">>,
      <<"1", "2", ":", "3", "4">> }

(* s.replace(":", "") *)
RemoveColons(s) == SelectSeq(s, LAMBDA c : c # ":")

(* s[-6:]: the last six characters, or all of s when it is shorter *)
LastSix(s) == SubSeq(s, IF Len(s) > 6 THEN Len(s) - 5 ELSE 1, Len(s))

(* the characters of s as one string *)
RECURSIVE Join(_)
Join(s) == IF s = <<>> THEN "" ELSE Head(s) \o Join(Tail(s))

(* f"TI-SensorTag-{mac.replace(':','')[-6:]}" *)
AssetId    == "TI-SensorTag-" \o Join(LastSix(RemoveColons(mac)))
LocationId == "Labor_ColorSorter_Umgebung"

Row(sensor, value, unit, t) ==
    [Sensor |-> sensor, Value |-> value, Unit |-> unit, DateTime |-> t]

Record(row) ==
    [AssetID |-> AssetId, LocationID |-> LocationId, Sensor |-> row.Sensor,
     Value |-> row.Value, Unit |-> row.Unit, DateTime |-> row.DateTime]

(* now_iso(): logical time = number of boundary events of the cycle so far *)
now_iso == Len(log)

-----------------------------------------------------------------------------
(* services/sensor.py: the four blocks of _read_once, in program order *)
Blocks == <<"HDC1000", "BMP280", "OPT3001", "Battery">>

BlockChar(b) ==
    CASE b = "HDC1000" -> "HUM"
      [] b = "BMP280"  -> "BAR"
      [] b = "OPT3001" -> "LUX"
      [] b = "Battery" -> "BAT"

(* Mutant: no block writes its configuration characteristic after the     *)
(* first one                                                               *)
BlockActivates_never(b) == FALSE

(* the battery level is read without an activation write or settle delay *)
BlockActivates(b) == b # "Battery"

(* the decode statements of a block: the values it computes (hundredths;  *)
(* the battery level int(byte) is byte * 100 hundredths), or the error     *)
(* class they raise: struct.error from struct.unpack on a length other     *)
(* than the format's, IndexError from indexing past the end of the buffer  *)
DecodeBlock(b, bytes) ==
    CASE b = "HDC1000" ->
            LET u == UnpackLE_HH(bytes)
            IN  IF u.err # "none" THEN Fail(u.err)
                ELSE Val(<<TempC(u.vals[1]), RelHum(u.vals[2])>>)
      [] b = "BMP280" ->
            IF Len(bytes) < 6 THEN Fail("IndexError")
            ELSE Val(<<Press(bytes[4] + 256 * bytes[5] + 65536 * bytes[6])>>)
      [] b = "OPT3001" ->
            LET u == UnpackBE_H(bytes)
            IN  IF u.err # "none" THEN Fail(u.err)
                ELSE Val(<<Lux(u.vals[1])>>)
      [] b = "Battery" ->
            IF Len(bytes) < 1 THEN Fail("IndexError")
            ELSE Val(<<100 * bytes[1]>>)

(* the rows a block appends, given its decoded values and its timestamp *)
BlockRows(b, vals, t) ==
    CASE b = "HDC1000" -> <<Row("Temperature", vals[1], "°C", t),
                            Row("Humidity", vals[2], "%", t)>>
      [] b = "BMP280"  -> <<Row("Pressure", vals[1], "hPa", t)>>
      [] b = "OPT3001" -> <<Row("Illuminance", vals[1], "lx", t)>>
      [] b = "Battery" -> <<Row("Battery", vals[1], "%", t)>>

-----------------------------------------------------------------------------
(* Initial state: the script about to run, the device holding some values *)
(* the values the device may hold while script p runs; test.py reads      *)
(* neither the barometer nor the battery                                  *)
DeviceStates(p) ==
    { f \in [Chars -> UNION { RawChoices(c) : c \in Chars }] :
        /\ \A c \in Chars : f[c] \in RawChoices(c)
        /\ p = "test" => f["BAR"] = Nominal("BAR") /\ f["BAT"] = Nominal("BAT") }

Init ==
    /\ prog \in {"sensor", "test"}
    /\ mac \in IF prog = "sensor" THEN MacChoices ELSE {DEFAULT_MAC}
    /\ pc = IF prog = "sensor" THEN "main" ELSE "t_main"
    /\ raw \in DeviceStates(prog)
    /\ attempt = 0
    /\ idx = 1
    /\ buf = <<>>
    /\ rows = <<>>
    /\ df = <<>>
    /\ pub = 1
    /\ exc = "none"
    /\ conns = 0
    /\ mqtt = "new"
    /\ ts = 0
    /\ log = <<>>

-----------------------------------------------------------------------------
(* services/sensor.py *)

(* __main__: df = read_all(mac); read_all enters its loop with attempt = 0 *)
sensor_main ==
    /\ pc = "main"
    /\ attempt' = 0
    /\ pc' = "ro_open"
    /\ UNCHANGED <<mac, prog, raw, idx, buf, rows, df, pub, exc, conns, mqtt, ts, log>>

(* _read_once: dev = btle.Peripheral(mac), outside the try block *)
ro_open ==
    /\ pc = "ro_open"
    /\ \E o \in BleOutcomes :
          IF o = "ok"
          THEN /\ conns' = conns + 1
               /\ log' = Append(log, Ev("open", "-"))
               /\ pc' = "ro_setup"
               /\ exc' = exc
          ELSE /\ exc' = o
               /\ log' = log \o <<Ev("open_failed", "-"), Ev("raise", o)>>
               /\ pc' = "ra_except"
               /\ conns' = conns
    /\ UNCHANGED <<mac, prog, raw, attempt, idx, buf, rows, df, pub, mqtt, ts>>

(* Mutant: rows lives outside _read_once and is not emptied per attempt *)
ro_setup_keeps_rows ==
    /\ pc = "ro_setup"
    /\ rows' = rows
    /\ idx' = 1
    /\ pc' = "ro_write"
    /\ UNCHANGED <<mac, prog, raw, attempt, buf, df, pub, exc, conns, mqtt, ts, log>>

(* _read_once: rows = [], asset_id, loc_id; then the try block is entered *)
ro_setup ==
    /\ pc = "ro_setup"
    /\ rows' = <<>>
    /\ idx' = 1
    /\ pc' = "ro_write"
    /\ UNCHANGED <<mac, prog, raw, attempt, buf, df, pub, exc, conns, mqtt, ts, log>>

(* dev.getCharacteristics(uuid=<conf>)[0].write(b"\x01", withResponse=True) *)
ro_write ==
    /\ pc = "ro_write"
    /\ \E o \in BleOutcomes :
          IF o = "ok"
          THEN /\ log' = Append(log, Ev("write", Blocks[idx]))
               /\ pc' = "ro_sleep"
               /\ exc' = exc
          ELSE /\ exc' = o
               /\ log' = Append(log, Ev("raise", o))
               /\ pc' = "ro_finally"
    /\ UNCHANGED <<mac, prog, raw, attempt, idx, buf, rows, df, pub, conns, mqtt, ts>>

(* time.sleep(<settle delay>) *)
ro_sleep ==
    /\ pc = "ro_sleep"
    /\ log' = Append(log, Ev("sleep", Blocks[idx]))
    /\ pc' = "ro_read"
    /\ UNCHANGED <<mac, prog, raw, attempt, idx, buf, rows, df, pub, exc, conns, mqtt, ts>>

(* dev.getCharacteristics(uuid=<data>)[0].read() *)
ro_read ==
    /\ pc = "ro_read"
    /\ \E o \in BleOutcomes :
          IF o = "ok"
          THEN /\ buf' = raw[BlockChar(Blocks[idx])]
               /\ log' = Append(log, Ev("read", Blocks[idx]))
               /\ pc' = "ro_decode"
               /\ exc' = exc
          ELSE /\ exc' = o
               /\ log' = Append(log, Ev("raise", o))
               /\ pc' = "ro_finally"
               /\ buf' = buf
    /\ UNCHANGED <<mac, prog, raw, attempt, idx, rows, df, pub, conns, mqtt, ts>>

(* where control goes after block i has appended its rows *)
AfterBlock(i) ==
    IF i >= Len(Blocks) THEN "ro_finally"
    ELSE IF BlockActivates(Blocks[i + 1]) THEN "ro_write" ELSE "ro_read"

(* the decode statements of the block, ts = now_iso(), rows += [...] *)
ro_decode ==
    /\ pc = "ro_decode"
    /\ LET d == DecodeBlock(Blocks[idx], buf)
       IN  IF d.err = "none"
           THEN /\ ts' = now_iso
                /\ rows' = rows \o BlockRows(Blocks[idx], d.vals, now_iso)
                /\ idx' = idx + 1
                /\ pc' = AfterBlock(idx)
                /\ UNCHANGED <<exc, log>>
           ELSE /\ exc' = d.err
                /\ log' = Append(log, Ev("raise", d.err))
                /\ pc' = "ro_finally"
                /\ UNCHANGED <<ts, rows, idx>>
    /\ UNCHANGED <<mac, prog, raw, attempt, buf, df, pub, conns, mqtt>>

(* Mutant: the disconnect sits after the try body instead of in a finally  *)
(* clause, so it runs only when no exception is in flight.                 *)
ro_finally_success_only ==
    /\ pc = "ro_finally"
    /\ IF exc = "none"
       THEN /\ conns' = conns - 1
            /\ log' = Append(log, Ev("close", "-"))
            /\ pc' = "ro_return"
       ELSE /\ pc' = "ra_except"
            /\ UNCHANGED <<conns, log>>
    /\ UNCHANGED <<mac, prog, raw, attempt, idx, buf, rows, df, pub, exc, mqtt, ts>>

(* Mutant: the finally clause returns, which swallows the exception in     *)
(* flight and hands back the rows collected so far.                        *)
ro_finally_returns ==
    /\ pc = "ro_finally"
    /\ conns' = conns - 1
    /\ log' = Append(log, Ev("close", "-"))
    /\ exc' = "none"
    /\ pc' = "ro_return"
    /\ UNCHANGED <<mac, prog, raw, attempt, idx, buf, rows, df, pub, mqtt, ts>>

(* finally: dev.disconnect(); then the exception in flight, if any, goes on *)
ro_finally ==
    /\ pc = "ro_finally"
    /\ conns' = conns - 1
    /\ log' = Append(log, Ev("close", "-"))
    /\ pc' = IF exc = "none" THEN "ro_return" ELSE "ra_except"
    /\ UNCHANGED <<mac, prog, raw, attempt, idx, buf, rows, df, pub, exc, mqtt, ts>>

(* df = pd.DataFrame(rows) with AssetID and LocationID; read_all returns it *)
ro_return ==
    /\ pc = "ro_return"
    /\ df' = [i \in 1..Len(rows) |-> Record(rows[i])]
    /\ log' = Append(log, Ev("batch", "-"))
    /\ pc' = "mq_connect"
    /\ UNCHANGED <<mac, prog, raw, attempt, idx, buf, rows, pub, exc, conns, mqtt, ts>>

(* Mutant: read_all catches every exception class, not only the           *)
(* disconnect class                                                        *)
ShouldRetry_any_error(e, a) == a < RETRY_ON_DISCONNECT

(* Mutant: off by one in the comparison with RETRY_ON_DISCONNECT *)
ShouldRetry_off_by_one(e, a) == e = Disconnect /\ a <= RETRY_ON_DISCONNECT

(* read_all: whether the except clause goes round the loop again *)
ShouldRetry(e, a) == e = Disconnect /\ a < RETRY_ON_DISCONNECT

(* read_all: `raise e` re-raises the caught exception object as it is:    *)
(* the set of <<attribute, value>> pairs read_all attaches to it is empty *)
Reraised(e, a) == {}

(* read_all: except btle.BTLEDisconnectError; anything else is not caught *)
ra_except ==
    /\ pc = "ra_except"
    /\ pc' = IF ShouldRetry(exc, attempt) THEN "ra_pause" ELSE "exit"
    /\ UNCHANGED <<mac, prog, raw, attempt, idx, buf, rows, df, pub, exc, conns, mqtt, ts, log>>

(* read_all: time.sleep(1.0), then the next iteration of the for loop *)
ra_pause ==
    /\ pc = "ra_pause"
    /\ log' = Append(log, Ev("pause", "-"))
    /\ attempt' = attempt + 1
    /\ exc' = "none"
    /\ pc' = "ro_open"
    /\ UNCHANGED <<mac, prog, raw, idx, buf, rows, df, pub, conns, mqtt, ts>>

(* outcomes of a call on the MQTT client: it returns, returns an error    *)
(* code (publish only; the caller does not look at it), or raises         *)
MqttRaise == "MQTTException"

(* __main__: client = mqtt.Client(...); client.connect(...) *)
mq_connect ==
    /\ pc = "mq_connect"
    /\ \E o \in {"ok", MqttRaise} :
          IF o = "ok"
          THEN /\ mqtt' = "connected"
               /\ pub' = 1
               /\ pc' = "mq_publish"
               /\ exc' = exc
          ELSE /\ exc' = o
               /\ pc' = "exit"
               /\ UNCHANGED <<mqtt, pub>>
    /\ UNCHANGED <<mac, prog, raw, attempt, idx, buf, rows, df, conns, ts, log>>

(* __main__: for _, r in df.iterrows(): publish_row(r, client) *)
mq_publish ==
    /\ pc = "mq_publish"
    /\ pub <= Len(df)
    /\ \E o \in {"ok", "rc_error", MqttRaise} :
          CASE o = "ok" ->
                  /\ log' = Append(log, Ev("publish", df[pub].Sensor))
                  /\ pub' = pub + 1
                  /\ UNCHANGED <<pc, exc>>
            [] o = "rc_error" ->
                  /\ log' = log \o <<Ev("publish", df[pub].Sensor), Ev("rc_error", df[pub].Sensor)>>
                  /\ pub' = pub + 1
                  /\ UNCHANGED <<pc, exc>>
            [] o = MqttRaise ->
                  /\ log' = log \o <<Ev("publish", df[pub].Sensor), Ev("raise", o)>>
                  /\ exc' = o
                  /\ pc' = "exit"
                  /\ pub' = pub
    /\ UNCHANGED <<mac, prog, raw, attempt, idx, buf, rows, df, conns, mqtt, ts>>

(* __main__: the for loop is exhausted; client.disconnect() *)
mq_disconnect ==
    /\ pc = "mq_publish"
    /\ pub > Len(df)
    /\ mqtt' = "disconnected"
    /\ log' = Append(log, Ev("mqtt_disconnect", "-"))
    /\ pc' = "exit"
    /\ UNCHANGED <<mac, prog, raw, attempt, idx, buf, rows, df, pub, exc, conns, ts>>

(* positions of sensor.py inside the try block of _read_once *)
RoInTry == {"ro_write", "ro_sleep", "ro_read", "ro_decode"}

(* every position of sensor.py before the process has ended *)
SensorPositions ==
    RoInTry \cup {"main", "ro_open", "ro_setup", "ro_finally", "ro_return",
                 "ra_except", "ra_pause", "mq_connect", "mq_publish"}

(* KeyboardInterrupt delivered to sensor.py: inside the try block of      *)
(* _read_once the finally clause runs; nothing else in the script catches *)
(* it, so anywhere else the process ends at once: in the finally clause   *)
(* before dev.disconnect() has run, in the except clause of read_all,     *)
(* after client.connect() before client.disconnect() has run.             *)
sensor_interrupt ==
    /\ prog = "sensor"
    /\ pc \in SensorPositions
    /\ exc' = Cancel
    /\ log' = Append(log, Ev("raise", Cancel))
    /\ pc' = IF pc \in RoInTry THEN "ro_finally" ELSE "exit"
    /\ UNCHANGED <<mac, prog, raw, attempt, idx, buf, rows, df, pub, conns, mqtt, ts>>

(* KeyboardInterrupt delivered to sensor.py inside a blocking call after   *)
(* the call has taken effect and before the script has gone on: the data  *)
(* read (the value is not assigned), dev.disconnect() in the finally      *)
(* clause, the retry pause (the loop has not advanced), a publish (the    *)
(* loop has not advanced) and client.disconnect().                        *)
sensor_interrupt_late ==
    /\ prog = "sensor"
    /\ pc \in {"ro_read", "ro_finally", "ra_pause", "mq_publish"}
    /\ exc' = Cancel
    /\ pc' = IF pc = "ro_read" THEN "ro_finally" ELSE "exit"
    /\ conns' = IF pc = "ro_finally" THEN conns - 1 ELSE conns
    /\ mqtt' = IF pc = "mq_publish" /\ pub > Len(df) THEN "disconnected" ELSE mqtt
    /\ log' = log \o
          <<CASE pc = "ro_read"    -> Ev("read", Blocks[idx])
              [] pc = "ro_finally" -> Ev("close", "-")
              [] pc = "ra_pause"   -> Ev("pause", "-")
              [] pc = "mq_publish" ->
                    IF pub <= Len(df) THEN Ev("publish", df[pub].Sensor)
                    ELSE Ev("mqtt_disconnect", "-"),
            Ev("raise", Cancel)>>
    /\ UNCHANGED <<mac, prog, raw, attempt, idx, buf, rows, df, pub, ts>>

-----------------------------------------------------------------------------
(* test.py *)

(* Sensor.registry, in the order the Sensor(...) definitions run *)
Registry == <<"Temperature", "Humidity", "Illuminance">>

SensorChar(s) ==
    CASE s = "Temperature" -> "HUM"
      [] s = "Humidity"    -> "HUM"
      [] s = "Illuminance" -> "LUX"

SensorUnit(s) ==
    CASE s = "Temperature" -> "CEL"
      [] s = "Humidity"    -> "P1"
      [] s = "Illuminance" -> "LUX"

(* the decode_fn lambdas *)
decode_fn(s, bytes) ==
    CASE s = "Temperature" ->
            LET u == UnpackLE_HH(bytes)
            IN  IF u.err # "none" THEN Fail(u.err) ELSE Val(<<TempC(u.vals[1])>>)
      [] s = "Humidity" ->
            LET u == UnpackLE_HH(bytes)
            IN  IF u.err # "none" THEN Fail(u.err) ELSE Val(<<RelHum(u.vals[2])>>)
      [] s = "Illuminance" ->
            LET u == UnpackBE_H(bytes)
            IN  IF u.err # "none" THEN Fail(u.err) ELSE Val(<<Lux(u.vals[1])>>)

(* main: client = mqtt.Client(); client.connect(...); client.loop_start(), *)
(* before the try block                                                    *)
t_main ==
    /\ pc = "t_main"
    /\ \E o \in {"ok", MqttRaise} :
          IF o = "ok"
          THEN /\ mqtt' = "connected"
               /\ pc' = "t_loop"
               /\ exc' = exc
          ELSE /\ exc' = o
               /\ pc' = "exit"
               /\ mqtt' = mqtt
    /\ UNCHANGED <<mac, prog, raw, attempt, idx, buf, rows, df, pub, conns, ts, log>>

(* main: while True: a new cycle begins with the call of read_all_sensors; *)
(* the device may hold other values than in the cycle before              *)
t_loop ==
    /\ pc = "t_loop"
    /\ log' = <<>>
    /\ raw' \in DeviceStates(prog)
    /\ pc' = "t_open"
    /\ UNCHANGED <<mac, prog, attempt, idx, buf, rows, df, pub, exc, conns, mqtt, ts>>

(* read_all_sensors: dev = btle.Peripheral(mac), outside the try block *)
t_open ==
    /\ pc = "t_open"
    /\ \E o \in BleOutcomes :
          IF o = "ok"
          THEN /\ conns' = conns + 1
               /\ log' = Append(log, Ev("open", "-"))
               /\ pc' = "t_setup"
               /\ exc' = exc
          ELSE /\ exc' = o
               /\ log' = log \o <<Ev("open_failed", "-"), Ev("raise", o)>>
               /\ pc' = "t_except"
               /\ conns' = conns
    /\ UNCHANGED <<mac, prog, raw, attempt, idx, buf, rows, df, pub, mqtt, ts>>

(* read_all_sensors: ts = now_iso(); assetid; rows = []; the try is entered *)
t_setup ==
    /\ pc = "t_setup"
    /\ ts' = now_iso
    /\ rows' = <<>>
    /\ idx' = 1
    /\ pc' = IF Len(Registry) >= 1 THEN "t_write" ELSE "t_finally"
    /\ UNCHANGED <<mac, prog, raw, attempt, buf, df, pub, exc, conns, mqtt, log>>

(* Sensor.read: the activation write, acknowledged *)
t_write ==
    /\ pc = "t_write"
    /\ \E o \in BleOutcomes :
          IF o = "ok"
          THEN /\ log' = Append(log, Ev("write", Registry[idx]))
               /\ pc' = "t_sleep"
               /\ exc' = exc
          ELSE /\ exc' = o
               /\ log' = Append(log, Ev("raise", o))
               /\ pc' = "t_finally"
    /\ UNCHANGED <<mac, prog, raw, attempt, idx, buf, rows, df, pub, conns, mqtt, ts>>

(* Sensor.read: time.sleep(self.delay) *)
t_sleep ==
    /\ pc = "t_sleep"
    /\ log' = Append(log, Ev("sleep", Registry[idx]))
    /\ pc' = "t_read"
    /\ UNCHANGED <<mac, prog, raw, attempt, idx, buf, rows, df, pub, exc, conns, mqtt, ts>>

(* Sensor.read: raw = dev.getCharacteristics(uuid=self.uuid_dat)[0].read() *)
t_read ==
    /\ pc = "t_read"
    /\ \E o \in BleOutcomes :
          IF o = "ok"
          THEN /\ buf' = raw[SensorChar(Registry[idx])]
               /\ log' = Append(log, Ev("read", Registry[idx]))
               /\ pc' = "t_decode"
               /\ exc' = exc
          ELSE /\ exc' = o
               /\ log' = Append(log, Ev("raise", o))
               /\ pc' = "t_finally"
               /\ buf' = buf
    /\ UNCHANGED <<mac, prog, raw, attempt, idx, rows, df, pub, conns, mqtt, ts>>

(* Sensor.read: value = self.decode_fn(raw) and the returned dict;         *)
(* read_all_sensors: AssetID, LocationID, rows.append(meas), next sensor   *)
t_decode ==
    /\ pc = "t_decode"
    /\ LET d == decode_fn(Registry[idx], buf)
       IN  IF d.err = "none"
           THEN /\ rows' = Append(rows,
                          Record(Row(Registry[idx], d.vals[1], SensorUnit(Registry[idx]), ts)))
                /\ idx' = idx + 1
                /\ pc' = IF idx >= Len(Registry) THEN "t_finally" ELSE "t_write"
                /\ UNCHANGED <<exc, log>>
           ELSE /\ exc' = d.err
                /\ log' = Append(log, Ev("raise", d.err))
                /\ pc' = "t_finally"
                /\ UNCHANGED <<rows, idx>>
    /\ UNCHANGED <<mac, prog, raw, attempt, buf, df, pub, conns, mqtt, ts>>

(* Mutant: read_all_sensors never disconnects *)
t_finally_no_release ==
    /\ pc = "t_finally"
    /\ IF exc = "none"
       THEN /\ df' = rows
            /\ pub' = 1
            /\ log' = Append(log, Ev("batch", "-"))
            /\ pc' = "t_publish"
       ELSE /\ pc' = "t_except"
            /\ UNCHANGED <<df, pub, log>>
    /\ UNCHANGED <<mac, prog, raw, attempt, idx, buf, rows, exc, conns, mqtt, ts>>

(* read_all_sensors: finally: dev.disconnect(); return pd.DataFrame(rows)  *)
(* unless an exception is in flight                                        *)
t_finally ==
    /\ pc = "t_finally"
    /\ conns' = conns - 1
    /\ IF exc = "none"
       THEN /\ df' = rows
            /\ pub' = 1
            /\ log' = log \o <<Ev("close", "-"), Ev("batch", "-")>>
            /\ pc' = "t_publish"
       ELSE /\ log' = Append(log, Ev("close", "-"))
            /\ pc' = "t_except"
            /\ UNCHANGED <<df, pub>>
    /\ UNCHANGED <<mac, prog, raw, attempt, idx, buf, rows, exc, mqtt, ts>>

(* main: for record in df.to_dict(orient="records"): publish_row(...)      *)
t_publish ==
    /\ pc = "t_publish"
    /\ pub <= Len(df)
    /\ \E o \in {"ok", "rc_error", MqttRaise} :
          CASE o = "ok" ->
                  /\ log' = Append(log, Ev("publish", df[pub].Sensor))
                  /\ pub' = pub + 1
                  /\ UNCHANGED <<pc, exc>>
            [] o = "rc_error" ->
                  /\ log' = log \o <<Ev("publish", df[pub].Sensor), Ev("rc_error", df[pub].Sensor)>>
                  /\ pub' = pub + 1
                  /\ UNCHANGED <<pc, exc>>
            [] o = MqttRaise ->
                  /\ log' = log \o <<Ev("publish", df[pub].Sensor), Ev("raise", o)>>
                  /\ exc' = o
                  /\ pc' = "t_except"
                  /\ pub' = pub
    /\ UNCHANGED <<mac, prog, raw, attempt, idx, buf, rows, df, conns, mqtt, ts>>

(* main: the batch is published; time.sleep(MEASUREMENT_INTERVAL) *)
t_interval ==
    /\ pc = "t_publish"
    /\ pub > Len(df)
    /\ log' = Append(log, Ev("interval", "-"))
    /\ pc' = "t_loop"
    /\ UNCHANGED <<mac, prog, raw, attempt, idx, buf, rows, df, pub, exc, conns, mqtt, ts>>

(* main: except btle.BTLEDisconnectError: sys.exit(1), which raises        *)
(* SystemExit; except KeyboardInterrupt: print; any other exception is not *)
(* caught.  In every case the finally clause of main runs next.            *)
t_except ==
    /\ pc = "t_except"
    /\ exc' = IF exc = Disconnect THEN "SystemExit" ELSE exc
    /\ pc' = "t_mainfinally"
    /\ UNCHANGED <<mac, prog, raw, attempt, idx, buf, rows, df, pub, conns, mqtt, ts, log>>

(* main: finally: client.loop_stop(); client.disconnect(); the process ends *)
t_mainfinally ==
    /\ pc = "t_mainfinally"
    /\ mqtt' = "disconnected"
    /\ log' = Append(log, Ev("mqtt_disconnect", "-"))
    /\ pc' = "exit"
    /\ UNCHANGED <<mac, prog, raw, attempt, idx, buf, rows, df, pub, exc, conns, ts>>

(* positions of test.py inside the try block of read_all_sensors *)
TInTry == {"t_write", "t_sleep", "t_read", "t_decode"}

(* positions of test.py inside the try block of main, outside the try      *)
(* block of read_all_sensors; t_finally is the finally clause of           *)
(* read_all_sensors before dev.disconnect() has run                        *)
TInMainTry == {"t_loop", "t_open", "t_setup", "t_finally", "t_publish"}

(* KeyboardInterrupt delivered to test.py: inside the try block of         *)
(* read_all_sensors its finally clause runs first; elsewhere inside the    *)
(* try block of main the except clause of main is next; in an except       *)
(* clause of main its finally clause is next; in that finally clause,      *)
(* before client.disconnect() has run, and before the try block of main,   *)
(* nothing catches it.  Before the try block the interrupt may arrive      *)
(* before or after client.connect() has returned.                          *)
test_interrupt ==
    /\ prog = "test"
    /\ pc \in TInTry \cup TInMainTry \cup {"t_main", "t_except", "t_mainfinally"}
    /\ exc' = Cancel
    /\ log' = Append(log, Ev("raise", Cancel))
    /\ pc' = IF pc \in TInTry THEN "t_finally"
             ELSE IF pc \in TInMainTry THEN "t_except"
             ELSE IF pc = "t_except" THEN "t_mainfinally"
             ELSE "exit"
    /\ mqtt' \in IF pc = "t_main" THEN {mqtt, "connected"} ELSE {mqtt}
    /\ UNCHANGED <<mac, prog, raw, attempt, idx, buf, rows, df, pub, conns, ts>>

(* KeyboardInterrupt delivered to test.py inside a blocking call after the *)
(* call has taken effect and before the script has gone on: the data read *)
(* (the value is not assigned), dev.disconnect() in the finally clause of *)
(* read_all_sensors (no batch is returned), a publish (the loop has not   *)
(* advanced) and client.disconnect() in the finally clause of main.       *)
test_interrupt_late ==
    /\ prog = "test"
    /\ \/ pc \in {"t_read", "t_finally", "t_mainfinally"}
       \/ pc = "t_publish" /\ pub <= Len(df)
    /\ exc' = Cancel
    /\ pc' = CASE pc = "t_read"        -> "t_finally"
               [] pc = "t_mainfinally" -> "exit"
               [] OTHER                -> "t_except"
    /\ conns' = IF pc = "t_finally" THEN conns - 1 ELSE conns
    /\ mqtt' = IF pc = "t_mainfinally" THEN "disconnected" ELSE mqtt
    /\ log' = log \o
          <<CASE pc = "t_read"        -> Ev("read", Registry[idx])
              [] pc = "t_finally"     -> Ev("close", "-")
              [] pc = "t_publish"     -> Ev("publish", df[pub].Sensor)
              [] pc = "t_mainfinally" -> Ev("mqtt_disconnect", "-"),
            Ev("raise", Cancel)>>
    /\ UNCHANGED <<mac, prog, raw, attempt, idx, buf, rows, df, pub, ts>>

-----------------------------------------------------------------------------
Next ==
    \/ sensor_main
    \/ ro_open
    \/ ro_setup
    \/ ro_write
    \/ ro_sleep
    \/ ro_read
    \/ ro_decode
    \/ ro_finally
    \/ ro_return
    \/ ra_except
    \/ ra_pause
    \/ mq_connect
    \/ mq_publish
    \/ mq_disconnect
    \/ sensor_interrupt
    \/ sensor_interrupt_late
    \/ t_main
    \/ t_loop
    \/ t_open
    \/ t_setup
    \/ t_write
    \/ t_sleep
    \/ t_read
    \/ t_decode
    \/ t_finally
    \/ t_publish
    \/ t_interval
    \/ t_except
    \/ t_mainfinally
    \/ test_interrupt
    \/ test_interrupt_late

Spec == Init /\ [][Next]_vars

-----------------------------------------------------------------------------
(* The decoders on their own: every 16-bit raw word, decoded by the decode *)
(* statements of _read_once and by the decode_fn of each registry entry.   *)

(* the largest value of a field of format "H" (unsigned 16 bit) *)
MaxWord == 65535

(* the bytes of the humidity/temperature characteristic for the raw pair   *)
(* (t_raw, rh_raw), as struct "<HH" lays them out                          *)
HumBytes(t_raw, rh_raw) ==
    <<t_raw % 256, t_raw \div 256, rh_raw % 256, rh_raw \div 256>>

(* the bytes of the illuminance characteristic for a raw word, as struct   *)
(* ">H" lays them out                                                      *)
LuxBytes(raw_lux) == <<raw_lux \div 256, raw_lux % 256>>

(* a device whose humidity/temperature characteristic holds the pair       *)
(* (w, MaxWord - w) and whose illuminance characteristic holds w           *)
CodecDevice(w) ==
    [c \in Chars |->
        CASE c = "HUM" -> HumBytes(w, MaxWord - w)
          [] c = "LUX" -> LuxBytes(w)
          [] OTHER     -> Nominal(c)]

(* the blocks of _read_once that decode a 16-bit word *)
WordBlocks == {1, 3}

InitCodec ==
    /\ prog = "codec"
    /\ mac = DEFAULT_MAC
    /\ pc = "c_input"
    /\ raw \in { CodecDevice(w) : w \in 0..MaxWord }
    /\ attempt = 0
    /\ idx = 1
    /\ buf = <<>>
    /\ rows = <<>>
    /\ df = <<>>
    /\ pub = 1
    /\ exc = "none"
    /\ conns = 0
    /\ mqtt = "new"
    /\ ts = 0
    /\ log = <<>>

(* sensor.py: the decode statements of one block of _read_once and the     *)
(* rows it appends                                                         *)
c_block ==
    /\ pc = "c_input"
    /\ \E i \in WordBlocks :
          LET d == DecodeBlock(Blocks[i], raw[BlockChar(Blocks[i])])
          IN  /\ idx' = i
              /\ buf' = raw[BlockChar(Blocks[i])]
              /\ rows' = BlockRows(Blocks[i], d.vals, now_iso)
    /\ pc' = "c_block"
    /\ UNCHANGED <<mac, prog, raw, attempt, df, pub, exc, conns, mqtt, ts, log>>

(* test.py: Sensor.read applies decode_fn to the raw value and builds the  *)
(* measurement                                                             *)
c_sensor ==
    /\ pc = "c_input"
    /\ \E i \in DOMAIN Registry :
          LET d == decode_fn(Registry[i], raw[SensorChar(Registry[i])])
          IN  /\ idx' = i
              /\ buf' = raw[SensorChar(Registry[i])]
              /\ rows' = <<Record(Row(Registry[i], d.vals[1], SensorUnit(Registry[i]), ts))>>
    /\ pc' = "c_sensor"
    /\ UNCHANGED <<mac, prog, raw, attempt, df, pub, exc, conns, mqtt, ts, log>>

NextCodec ==
    \/ c_block
    \/ c_sensor

SpecCodec == InitCodec /\ [][NextCodec]_vars

-----------------------------------------------------------------------------
(* Vocabulary of the properties *)

Positions(e) == { i \in DOMAIN log : log[i].ev = e }
Count(e)     == Cardinality(Positions(e))

(* positions at which a connection attempt (a call of btle.Peripheral) is logged *)
Attempts == Positions("open") \cup Positions("open_failed")

(* a connection is held (or about to be released) by the running read sequence *)
InSession ==
    pc \in RoInTry \cup TInTry \cup {"ro_setup", "ro_finally", "t_setup", "t_finally"}

DecodeErrors == {"struct.error", "IndexError"}

DecodeFailed == \E i \in DOMAIN log : log[i].ev = "raise" /\ log[i].s \in DecodeErrors

(* the cycle was cancelled by the operator *)
Cancelled == exc = Cancel

(* the first attempt of the cycle got as far as reading a sensor before it failed *)
FirstAttemptReadSome ==
    \E p \in Positions("pause") : \E i \in Positions("read") : i < p

(* a row without its timestamp and identity *)
Core(r) == [Sensor |-> r.Sensor, Value |-> r.Value, Unit |-> r.Unit]

-----------------------------------------------------------------------------
(* C1: every BLE connection opened in a cycle is released (disconnect      *)
(* called) exactly once, and before control returns to the caller, on      *)
(* normal completion, on a disconnect-class error and on any other error   *)
(* (cancellation is a separate claim).                                     *)
C1_ReleasedExactlyOnce ==
    (~Cancelled /\ ~InSession) =>
        /\ conns = 0
        /\ Count("close") = Count("open")
        /\ \A i \in Positions("open") :
              Cardinality({ j \in Positions("close") :
                              /\ j > i
                              /\ \A k \in (i + 1)..j : log[k].ev # "open" }) = 1

(* a retried cycle that ended with a decode error: two connections, each   *)
(* released, control back at the top level                                 *)
C1_Witness ==
    /\ pc = "exit"
    /\ exc \in DecodeErrors
    /\ Count("open") = 2
    /\ Count("close") = 2

-----------------------------------------------------------------------------
(* the first sensor of the read sequence of the running script *)
FirstSensor == IF prog = "sensor" THEN Blocks[1] ELSE Registry[1]

(* C2: in one cycle the read sequence is attempted at most twice; a second *)
(* attempt happens only after the first ended with a disconnect-class      *)
(* failure, directly after the pause that follows that failure, and it     *)
(* starts again at the first sensor with an empty batch.                   *)
C2_AtMostOneWholeRetry ==
    /\ Cardinality(Attempts) <= 2
    /\ attempt <= 1
    /\ \A i \in Attempts :
          i > 1 =>
            /\ log[i - 1].ev = "pause"
            /\ \E j \in 1..(i - 2) :
                  /\ log[j] = Ev("raise", Disconnect)
                  /\ \A k \in (j + 1)..(i - 2) : log[k].ev = "close"
    /\ \A i \in Positions("open") :
          i < Len(log) /\ log[i + 1].ev \in {"write", "sleep", "read"}
              => log[i + 1].s = FirstSensor
    /\ (pc \in {"ro_write", "t_write"} /\ Len(log) >= 1 /\ log[Len(log)].ev = "open")
          => idx = 1 /\ rows = <<>>

(* the retry has begun, at the first sensor, after a first attempt that    *)
(* had already read a sensor                                               *)
C2_Witness ==
    /\ prog = "sensor"
    /\ Cardinality(Attempts) = 2
    /\ FirstAttemptReadSome
    /\ pc = "ro_sleep"
    /\ log[Len(log)] = Ev("write", Blocks[1])

-----------------------------------------------------------------------------
(* C3 (as claimed): when both attempts of a cycle end with a disconnect-   *)
(* class failure, the cycle fails with a disconnect error that carries the *)
(* number of attempts made, 2.                                             *)
C3_ErrorCarriesAttemptCount ==
    (prog = "sensor" /\ pc = "exit" /\ exc = Disconnect /\ Cardinality(Attempts) = 2)
        => <<"attempts", 2>> \in Reraised(exc, attempt)

-----------------------------------------------------------------------------
(* the batch the raw characteristic values decode to, block by block *)
RECURSIVE ExpectedFrom(_)
ExpectedFrom(i) ==
    IF i > Len(Blocks) THEN <<>>
    ELSE LET rs == BlockRows(Blocks[i], DecodeBlock(Blocks[i], raw[BlockChar(Blocks[i])]).vals, 0)
         IN  [k \in 1..Len(rs) |-> Core(rs[k])] \o ExpectedFrom(i + 1)

(* C4: retry transparency: the batch read_all returns holds exactly the    *)
(* records the raw values decode to, in block order, whether it was built  *)
(* by the first attempt or by the retry; nothing of a failed attempt is in *)
(* it.                                                                     *)
C4_RetryTransparent ==
    (prog = "sensor" /\ pc = "mq_connect") =>
        [k \in 1..Len(df) |-> Core(df[k])] = ExpectedFrom(1)

(* a batch returned by the retry after a first attempt that had read a sensor *)
C4_Witness ==
    /\ prog = "sensor"
    /\ pc = "mq_connect"
    /\ attempt = 1
    /\ FirstAttemptReadSome
    /\ Len(df) = 5

-----------------------------------------------------------------------------
(* C5 (as claimed): once opening the connection has failed, no further     *)
(* connection attempt is made in that cycle.                               *)
C5_OpenFailureNotRetried ==
    \A i \in Positions("open_failed") : \A j \in Attempts : j <= i

-----------------------------------------------------------------------------
(* how a run of test.py ends when a cycle-fatal error ended it: sys.exit   *)
(* after a disconnect, or the uncaught connection / read / decode error    *)
CycleFatalEnds == {"SystemExit", BleOther} \cup DecodeErrors

(* C6 (as claimed): a cycle-fatal error (connection error, disconnect      *)
(* error, decode error) does not end the acquisition loop; only the        *)
(* operator's cancellation does.                                           *)
C6_LoopSurvivesFatalCycle ==
    (prog = "test" /\ pc = "exit") => exc \notin CycleFatalEnds

-----------------------------------------------------------------------------
(* C7: a batch is all-or-nothing: once the decoding of one raw sample has  *)
(* failed in a cycle, that cycle returns no batch and publishes no record, *)
(* whatever was decoded before the failure.                                *)
C7_AllOrNothing ==
    DecodeFailed =>
        /\ Count("batch") = 0
        /\ Count("publish") = 0
        /\ pc \notin {"ro_return", "mq_connect", "mq_publish", "t_publish", "t_loop"}

(* a cycle ended by a decode error after earlier sensors had been decoded *)
C7_Witness ==
    /\ DecodeFailed
    /\ Len(rows) >= 1
    /\ pc = "exit"

-----------------------------------------------------------------------------
(* the number of bytes the decode statements of a block need *)
ExpectedLen(b) == Len(Nominal(BlockChar(b)))

(* the error class of a length mismatch reported by the unpacking codec *)
DecodeError == "struct.error"

(* C8 (as claimed): for every sensor a raw buffer shorter than the         *)
(* expected length is answered with the decode error, never with another   *)
(* error class and never with a value.                                     *)
C8_ShortBufferIsDecodeError ==
    /\ (pc = "ro_decode" /\ Len(buf) < ExpectedLen(Blocks[idx]))
          => DecodeBlock(Blocks[idx], buf).err = DecodeError
    /\ (pc = "t_decode" /\ Len(buf) < Len(Nominal(SensorChar(Registry[idx]))))
          => decode_fn(Registry[idx], buf).err = DecodeError

-----------------------------------------------------------------------------
(* the publishing of the current batch is over and the broker was reached *)
PublishingOver ==
    /\ Count("batch") = 1
    /\ mqtt # "new"
    /\ pc \in {"exit", "t_loop", "t_except", "t_mainfinally"}

(* C9 (as claimed): for a batch of n records publish is attempted n times  *)
(* whatever the outcome of each publish, and a failed publish does not end *)
(* the acquisition loop.                                                   *)
C9_EveryRecordPublishAttempted ==
    (PublishingOver /\ ~Cancelled) =>
        /\ Count("publish") = Len(df)
        /\ exc # MqttRaise

-----------------------------------------------------------------------------
(* C10: at most one BLE connection is open at any time: a connection is    *)
(* opened only when the previous one has been released.                    *)
C10_AtMostOneConnection == conns \in {0, 1}

(* the retry of a cycle holds the second connection of that cycle *)
C10_Witness ==
    /\ Count("open") = 2
    /\ conns = 1
    /\ log[Len(log)].ev = "open"

-----------------------------------------------------------------------------
(* C11 (as claimed): a KeyboardInterrupt delivered at a suspension point   *)
(* or at any other step while a BLE connection is open still releases the  *)
(* connection before the process exits: no execution ends with a           *)
(* connection opened and never released.                                   *)
(* Refuted by an interrupt between btle.Peripheral(mac) returning and the  *)
(* try statement being entered (sensor.py:38-40, test.py:75-77).           *)
C11_CancelStillReleases == (pc = "exit") => (conns = 0)

-----------------------------------------------------------------------------
(* a decoder has been applied to the raw value of sensor s *)
Decoded(s) ==
    /\ pc \in {"c_block", "c_sensor"}
    /\ \E k \in DOMAIN rows : rows[k].Sensor = s

(* the value the decoder produced for sensor s *)
ValueOf(s) == rows[CHOOSE k \in DOMAIN rows : rows[k].Sensor = s].Value

(* C12: for every raw humidity/temperature buffer of two unsigned 16-bit   *)
(* fields the decoded temperature lies in [-40, 125] degrees Celsius and    *)
(* the decoded relative humidity in [0, 100] percent (values in            *)
(* hundredths).                                                            *)
C12_TempHumInRange ==
    /\ Decoded("Temperature") => ValueOf("Temperature") \in -4000..12500
    /\ Decoded("Humidity")    => ValueOf("Humidity") \in 0..10000

(* the largest temperature word and the smallest humidity word, decoded    *)
(* by _read_once to the upper end of the one range and the lower end of    *)
(* the other                                                               *)
C12_Witness ==
    /\ pc = "c_block"
    /\ buf = HumBytes(MaxWord, 0)
    /\ Decoded("Temperature") /\ ValueOf("Temperature") = 12500
    /\ Decoded("Humidity") /\ ValueOf("Humidity") = 0

-----------------------------------------------------------------------------
(* the humidity/temperature bytes b with the low two bits of the raw       *)
(* humidity field set to n                                                 *)
WithStatusBits(b, n) ==
    LET rh_raw == b[3] + 256 * b[4]
    IN  HumBytes(b[1] + 256 * b[2], rh_raw - (rh_raw % 4) + n)

(* C13: the decoded humidity does not depend on the low 2 bits of the raw  *)
(* humidity field: two buffers that differ only in those bits decode to    *)
(* the same humidity, in _read_once and in the registry's decode_fn.       *)
C13_HumidityIgnoresStatusBits ==
    Decoded("Humidity") =>
        \A n \in 0..3 :
            /\ pc = "c_block" =>
                  DecodeBlock("HDC1000", WithStatusBits(buf, n)).vals[2] = ValueOf("Humidity")
            /\ pc = "c_sensor" =>
                  decode_fn("Humidity", WithStatusBits(buf, n)).vals[1] = ValueOf("Humidity")

(* a humidity word with both status bits set has been decoded to a value   *)
(* other than 0                                                            *)
C13_Witness ==
    /\ Decoded("Humidity")
    /\ buf[3] % 4 = 3
    /\ ValueOf("Humidity") > 0

-----------------------------------------------------------------------------
(* the raw illuminance word held by the bytes b (big endian) *)
LuxWord(b) == 256 * b[1] + b[2]

(* the illuminance the program in control decodes from a raw word *)
LuxOf(w) ==
    IF pc = "c_block" THEN DecodeBlock("OPT3001", LuxBytes(w)).vals[1]
    ELSE decode_fn("Illuminance", LuxBytes(w)).vals[1]

(* C14: for a fixed exponent the decoded illuminance is monotone           *)
(* non-decreasing in the mantissa (0..4095), and for exponents 0..14 the   *)
(* same mantissa with the exponent one higher decodes to exactly twice the *)
(* value.                                                                  *)
C14_LuxMonotoneAndDoubling ==
    Decoded("Illuminance") =>
        LET w == LuxWord(buf)
        IN  /\ (w % 4096 < 4095) => LuxOf(w + 1) >= ValueOf("Illuminance")
            /\ (w \div 4096 <= 14) => LuxOf(w + 4096) = 2 * ValueOf("Illuminance")

(* the largest mantissa under exponent 14 has been decoded *)
C14_Witness ==
    /\ Decoded("Illuminance")
    /\ LuxWord(buf) = 14 * 4096 + 4095
    /\ ValueOf("Illuminance") = 4095 * (2 ^ 14)

-----------------------------------------------------------------------------
(* the order in which the program in control handles its sensors *)
Order == IF prog = "sensor" THEN Blocks ELSE Registry

(* the data reads of the attempt that read event i belongs to, before i *)
EarlierReads(i) ==
    { j \in Positions("read") :
        /\ j < i
        /\ \A k \in Positions("open") : k < i => k < j }

(* read event i is the read of the next sensor in order *)
InOrder(i) ==
    /\ Cardinality(EarlierReads(i)) < Len(Order)
    /\ log[i].s = Order[Cardinality(EarlierReads(i)) + 1]

(* read event i directly follows the settle delay of its sensor, which     *)
(* directly follows the acknowledged activation write of its sensor        *)
Activated(i) ==
    /\ i > 2
    /\ log[i - 1] = Ev("sleep", log[i].s)
    /\ log[i - 2] = Ev("write", log[i].s)

(* C15 (as claimed): in every attempt the sensors are read in registry     *)
(* order and every data read, the battery's included, directly follows     *)
(* the sensor's own acknowledged activation write and settle delay.        *)
C15_EverySensorActivated ==
    \A i \in Positions("read") : InOrder(i) /\ Activated(i)

(* C15 (amended): in every attempt the sensors are read in registry order; *)
(* every data read other than the battery's directly follows the sensor's  *)
(* own acknowledged activation write and settle delay; the battery level   *)
(* has no activation step and is read right after the illuminance block.   *)
C15_ActivatedExceptBattery ==
    \A i \in Positions("read") :
        /\ InOrder(i)
        /\ log[i].s # "Battery" => Activated(i)
        /\ log[i].s = "Battery" => i > 1 /\ log[i - 1] = Ev("read", "OPT3001")

(* all four blocks of _read_once have read their data characteristic *)
C15_Witness ==
    /\ prog = "sensor"
    /\ Count("read") = Len(Blocks)
    /\ log[Len(log)] = Ev("read", "Battery")

-----------------------------------------------------------------------------
(* the sensor whose data read produced row r: in sensor.py the HDC1000     *)
(* read yields the temperature and the humidity row                        *)
ReadOf(r) ==
    IF prog = "test" THEN r.Sensor
    ELSE CASE r.Sensor \in {"Temperature", "Humidity"} -> "HDC1000"
           [] r.Sensor = "Pressure"    -> "BMP280"
           [] r.Sensor = "Illuminance" -> "OPT3001"
           [] r.Sensor = "Battery"     -> "Battery"

(* the rows collected so far belong to the attempt under way *)
Collecting == pc \in RoInTry \cup TInTry \cup {"ro_finally", "t_finally"}

(* C16 (as claimed): the timestamp of each record is captured after the    *)
(* data read of its own sensor has completed and before the activation     *)
(* write of the next sensor; never before the sensor's read.               *)
(* (A timestamp is the number of events logged when it was captured.)      *)
C16_TimestampAfterOwnRead ==
    Collecting =>
        \A k \in DOMAIN rows :
            \E i \in Positions("read") :
                /\ log[i].s = ReadOf(rows[k])
                /\ \A o \in Positions("open") : o < i
                /\ i <= rows[k].DateTime
                /\ \A j \in Positions("write") : j > i => j > rows[k].DateTime

-----------------------------------------------------------------------------
(* errors of another class than the disconnect class, raised during a read *)
(* attempt of the cycle (before a batch was returned)                      *)
OtherErrors ==
    { i \in Positions("raise") :
        /\ log[i].s # Disconnect
        /\ \A b \in Positions("batch") : i < b }

(* C17: an error of a class other than the disconnect class (a decode      *)
(* failure included), raised at any step of a read attempt, is never       *)
(* retried: nothing follows it in the cycle but the release of the         *)
(* connection and of the broker client (or a cancellation on the way       *)
(* out), no further connection is opened, and the process ends with that   *)
(* error unless it was cancelled on the way out.                           *)
C17_OtherErrorNeverRetried ==
    \A i \in OtherErrors :
        /\ \A j \in DOMAIN log :
              j > i => \/ log[j].ev \in {"close", "mqtt_disconnect"}
                       \/ log[j] = Ev("raise", Cancel)
        /\ \A a \in Attempts : a < i
        /\ pc = "exit" => exc \in {log[i].s, Cancel}

(* a decode failure in the first attempt of sensor.py ended the process    *)
(* after that one attempt                                                  *)
C17_Witness ==
    /\ prog = "sensor"
    /\ pc = "exit"
    /\ exc \in DecodeErrors
    /\ OtherErrors # {}
    /\ Cardinality(Attempts) = 1
    /\ Count("close") = 1

-----------------------------------------------------------------------------
(* C18 (as claimed): a raw buffer longer than the decoder expects is never *)
(* silently truncated: for every sensor, the pressure (bytes 3..5) and the *)
(* battery (byte 0) included, decoding it fails with the decode error and  *)
(* yields no value.                                                        *)
C18_LongBufferIsDecodeError ==
    /\ (pc = "ro_decode" /\ Len(buf) > ExpectedLen(Blocks[idx]))
          => /\ DecodeBlock(Blocks[idx], buf).err = DecodeError
             /\ DecodeBlock(Blocks[idx], buf).vals = <<>>
    /\ (pc = "t_decode" /\ Len(buf) > Len(Nominal(SensorChar(Registry[idx]))))
          => /\ decode_fn(Registry[idx], buf).err = DecodeError
             /\ decode_fn(Registry[idx], buf).vals = <<>>

-----------------------------------------------------------------------------
(* the inter-cycle suspension comes after a publish attempt for every      *)
(* record of the batch and ends the cycle: nothing follows it before the   *)
(* next cycle but a cancellation and the release of the broker client      *)
IntervalEndsCycle ==
    \A v \in Positions("interval") :
        /\ Count("publish") = Len(df)
        /\ \A j \in DOMAIN log : j > v => log[j].ev \in {"raise", "mqtt_disconnect"}
        /\ \A j \in DOMAIN log : j < v => log[j].ev # "interval"

(* C19 (as claimed): a cycle opens the connection, reads all sensors,      *)
(* publishes all records and then closes the connection; the inter-cycle   *)
(* suspension comes after all of these and before the next open.           *)
C19_PublishThenClose ==
    /\ \A p \in Positions("publish") :
          /\ \A o \in Positions("open") \cup Positions("read") : o < p
          /\ \A c \in Positions("close") : p < c
    /\ IntervalEndsCycle

(* C19 (amended): a cycle opens the connection, reads all sensors, closes  *)
(* the connection and only then publishes the records: when a record is    *)
(* published every connection of the cycle has been closed and no          *)
(* connection is open; the inter-cycle suspension comes after all of       *)
(* these and before the next open.                                         *)
C19_CloseThenPublish ==
    /\ \A p \in Positions("publish") :
          /\ \A o \in Positions("open") \cup Positions("read") \cup Positions("close") : o < p
          /\ Count("close") = Count("open")
          /\ Count("close") >= 1
          /\ conns = 0
    /\ IntervalEndsCycle

(* a whole cycle of the acquisition loop: three records published, the     *)
(* suspension under way                                                    *)
C19_Witness ==
    /\ prog = "test"
    /\ Count("publish") = Len(Registry)
    /\ Count("interval") = 1

-----------------------------------------------------------------------------
(* C20 (as claimed): once the broker connection is established, every way  *)
(* of leaving the publishing phase (normal end, cancellation, exit after a *)
(* BLE disconnect, uncaught read or decode error, error raised by publish) *)
(* disconnects the broker client exactly once: no execution ends with the  *)
(* broker connection established and never disconnected.                   *)
C20_BrokerReleasedOnce ==
    (pc = "exit" /\ mqtt # "new") =>
        /\ mqtt = "disconnected"
        /\ Count("mqtt_disconnect") = 1

=============================================================================
